---- MODULE Spec2Model ----
(***************************************************************************)
(* Activation layer of the hw3 neural network: src/hw3/src/activations.cpp *)
(*                                                                         *)
(* A double is modelled as a pair <<n, d>>: the exact rational n/d in      *)
(* lowest terms with d > 0, or one of the IEEE specials <<1,0>> (+inf),    *)
(* <<-1,0>> (-inf), <<0,0>> (NaN).  Rounding of finite results is not      *)
(* modelled; the range of exp is (it overflows to +inf and underflows to   *)
(* 0), scaled down so that the cases fit small inputs.                     *)
(*                                                                         *)
(* A Matrix is a record [rows, cols, data] with data the row-major buffer  *)
(* (data[k+1] is begin()[k], data[i*cols + j + 1] is m[i][j]).             *)
(***************************************************************************)
EXTENDS Integers, Sequences, FiniteSets, TLC

VARIABLES pc, a, matrix, out, grad, result, err, jacs

vars == <<pc, a, matrix, out, grad, result, err, jacs>>

---------------------------------------------------------------------------
(* Bounds of the model *)

MaxRows == 2
MaxCols == 3
MaxElems == 4

---------------------------------------------------------------------------
(* double arithmetic *)

Zero == <<0, 1>>
One == <<1, 1>>
PInf == <<1, 0>>
NInf == <<-1, 0>>
NaN == <<0, 0>>

Num(n) == <<n, 1>>

Abs(n) == IF n < 0 THEN -n ELSE n

Sign(n) == IF n < 0 THEN -1 ELSE IF n > 0 THEN 1 ELSE 0

RECURSIVE GCD(_, _)
GCD(m, n) == IF n = 0 THEN m ELSE GCD(n, m % n)

\* n/d with d > 0, in lowest terms
Norm(n, d) == LET g == GCD(Abs(n), d) IN <<n \div g, d \div g>>

IsNaN(x) == x = NaN

IsInf(x) == x[2] = 0 /\ x[1] # 0

IsFinite(x) == x[2] # 0

Neg(x) == <<-x[1], x[2]>>

Add(x, y) ==
  IF IsNaN(x) \/ IsNaN(y) THEN NaN
  ELSE IF IsInf(x) /\ IsInf(y) THEN (IF x = y THEN x ELSE NaN)
  ELSE IF IsInf(x) THEN x
  ELSE IF IsInf(y) THEN y
  ELSE Norm(x[1] * y[2] + y[1] * x[2], x[2] * y[2])

Sub(x, y) == Add(x, Neg(y))

Mul(x, y) ==
  IF IsNaN(x) \/ IsNaN(y) THEN NaN
  ELSE IF IsInf(x) \/ IsInf(y)
       THEN (IF x[1] = 0 \/ y[1] = 0 THEN NaN ELSE <<Sign(x[1]) * Sign(y[1]), 0>>)
  ELSE Norm(x[1] * y[1], x[2] * y[2])

Div(x, y) ==
  IF IsNaN(x) \/ IsNaN(y) THEN NaN
  ELSE IF IsInf(x) /\ IsInf(y) THEN NaN
  ELSE IF IsInf(x) THEN <<x[1] * (IF y[1] < 0 THEN -1 ELSE 1), 0>>
  ELSE IF IsInf(y) THEN Zero
  ELSE IF y[1] = 0 THEN (IF x[1] = 0 THEN NaN ELSE <<Sign(x[1]), 0>>)
  ELSE Norm(x[1] * y[2] * Sign(y[1]), x[2] * Abs(y[1]))

\* x < y; false when either side is NaN
Lt(x, y) ==
  IF IsNaN(x) \/ IsNaN(y) THEN FALSE
  ELSE IF IsInf(x) /\ IsInf(y) THEN x[1] < y[1]
  ELSE x[1] * y[2] < y[1] * x[2]

Gt(x, y) == Lt(y, x)

RECURSIVE Pow2(_)
Pow2(n) == IF n = 0 THEN 1 ELSE 2 * Pow2(n - 1)

\* Largest argument magnitude exp handles without leaving the double range
ExpMax == 1

\* Whole part of a finite x (the model's arguments of exp and tanh are whole)
Whole(x) == x[1] \div x[2]

\* exp: positive and increasing, exp(0) = 1, +inf above the range, 0 below it
Exp(x) ==
  IF IsNaN(x) THEN NaN
  ELSE IF x = PInf THEN PInf
  ELSE IF x = NInf THEN Zero
  ELSE IF Whole(x) > ExpMax THEN PInf
  ELSE IF Whole(x) < -ExpMax THEN Zero
  ELSE IF Whole(x) >= 0 THEN <<Pow2(Whole(x)), 1>>
  ELSE <<1, Pow2(-Whole(x))>>

\* tanh: saturates at -1 and 1 outside the range
Tanh(x) ==
  IF IsNaN(x) THEN NaN
  ELSE IF x = PInf \/ (IsFinite(x) /\ Whole(x) > ExpMax) THEN One
  ELSE IF x = NInf \/ (IsFinite(x) /\ Whole(x) < -ExpMax) THEN Neg(One)
  ELSE Div(Sub(Exp(x), Exp(Neg(x))), Add(Exp(x), Exp(Neg(x))))

---------------------------------------------------------------------------
(* Matrix (matrix.h) *)

NoMatrix == [rows |-> 0, cols |-> 0, data |-> <<>>]

\* Matrix(rows, cols): a zero-filled rows x cols matrix
MatrixZero(r, c) == [rows |-> r, cols |-> c, data |-> [k \in 1..(r * c) |-> Zero]]

\* m[i][j], zero-based
At(m, i, j) == m.data[i * m.cols + j + 1]

\* m.get_row(i): row i as a 1 x cols matrix
get_row(m, i) == [rows |-> 1, cols |-> m.cols,
                  data |-> [k \in 1..m.cols |-> At(m, i, k - 1)]]

transpose(m) == [rows |-> m.cols, cols |-> m.rows,
                 data |-> [k \in 1..(m.rows * m.cols) |->
                             At(m, (k - 1) % m.rows, (k - 1) \div m.rows)]]

RECURSIVE DotFrom(_, _, _, _, _)
\* sum over k = from .. x.cols-1 of x[i][k] * y[k][j], accumulated left to right
DotFrom(x, y, i, j, k) ==
  IF k < 0 THEN Zero
  ELSE Add(DotFrom(x, y, i, j, k - 1), Mul(At(x, i, k), At(y, k, j)))

\* x * y
MatMul(x, y) == [rows |-> x.rows, cols |-> y.cols,
                 data |-> [k \in 1..(x.rows * y.cols) |->
                             DotFrom(x, y, (k - 1) \div y.cols, (k - 1) % y.cols, x.cols - 1)]]

\* x - y
MatSub(x, y) == [x EXCEPT !.data = [k \in 1..(x.rows * x.cols) |-> Sub(x.data[k], y.data[k])]]

\* assert_same_size(a, b): TRUE when the assertion passes
assert_same_size(x, y) == x.rows = y.rows /\ x.cols = y.cols

---------------------------------------------------------------------------
(* What a call yields: a matrix, or the failed assertion that ended it *)

Ret(m) == [err |-> "none", value |-> m]

Fatal(e) == [err |-> e, value |-> NoMatrix]

---------------------------------------------------------------------------
(* Activation kinds (enum Activation); INVALID is any value outside the six *)

LINEAR == "LINEAR"
LOGISTIC == "LOGISTIC"
TANH == "TANH"
RELU == "RELU"
LRELU == "LRELU"
SOFTMAX == "SOFTMAX"
INVALID == "INVALID"

Activations == {LINEAR, LOGISTIC, TANH, RELU, LRELU, SOFTMAX}

\* 0.01, the slope of the leaky ReLU
Slope == <<1, 100>>

---------------------------------------------------------------------------
(* Linear *)

forward_linear(m) ==
  LET activated == m IN Ret(activated)

\* backward_linear without its size assertion
backward_linear_unchecked(o, prev_grad) ==
  LET g == prev_grad IN Ret(g)

backward_linear(o, prev_grad) ==
  IF ~assert_same_size(prev_grad, o) THEN Fatal("assert_same_size")
  ELSE LET g == prev_grad IN Ret(g)

(* Logistic *)

forward_logistic(m) ==
  LET activated == m IN
  Ret([activated EXCEPT !.data =
        [i \in 1..(activated.rows * activated.cols) |->
           LET x == activated.data[i]
           IN Div(One, Add(One, Exp(Mul(Neg(One), x))))]])

backward_logistic(o, prev_grad) ==
  IF ~assert_same_size(prev_grad, o) THEN Fatal("assert_same_size")
  ELSE LET g == prev_grad IN
       Ret([g EXCEPT !.data =
             [i \in 1..(g.rows * g.cols) |->
                LET next == g.data[i]
                    f == o.data[i]
                    fdot == Mul(f, Sub(One, f))
                IN Mul(next, fdot)]])

(* Tanh *)

forward_tanh(m) ==
  LET activated == m IN
  Ret([activated EXCEPT !.data =
        [i \in 1..(activated.rows * activated.cols) |->
           LET x == activated.data[i] IN Tanh(x)]])

backward_tanh(o, prev_grad) ==
  IF ~assert_same_size(prev_grad, o) THEN Fatal("assert_same_size")
  ELSE LET g == prev_grad IN
       Ret([g EXCEPT !.data =
             [i \in 1..(g.rows * g.cols) |->
                LET next == g.data[i]
                    f == o.data[i]
                    fdot == Sub(One, Mul(f, f))
                IN Mul(next, fdot)]])

(* ReLU *)

\* forward_relu with the leaky branch: a negative input is scaled, not zeroed
forward_relu_leaky(m) ==
  LET activated == m IN
  Ret([activated EXCEPT !.data =
        [i \in 1..(activated.rows * activated.cols) |->
           LET x == activated.data[i]
           IN IF Gt(x, Zero) THEN x ELSE Mul(Slope, x)]])

forward_relu(m) ==
  LET activated == m IN
  Ret([activated EXCEPT !.data =
        [i \in 1..(activated.rows * activated.cols) |->
           LET x == activated.data[i]
           IN IF Gt(x, Zero) THEN x ELSE Zero]])

\* backward_relu passing the gradient only where the activated value is > 0
backward_relu_strict(o, prev_grad) ==
  IF ~assert_same_size(prev_grad, o) THEN Fatal("assert_same_size")
  ELSE LET g == prev_grad IN
       Ret([g EXCEPT !.data =
             [i \in 1..(g.rows * g.cols) |->
                LET next == g.data[i]
                    f == o.data[i]
                    fdot == IF Gt(f, Zero) THEN One ELSE Zero
                IN Mul(next, fdot)]])

backward_relu(o, prev_grad) ==
  IF ~assert_same_size(prev_grad, o) THEN Fatal("assert_same_size")
  ELSE LET g == prev_grad IN
       Ret([g EXCEPT !.data =
             [i \in 1..(g.rows * g.cols) |->
                LET next == g.data[i]
                    f == o.data[i]
                    fdot == IF Lt(f, Zero) THEN Zero ELSE One
                IN Mul(next, fdot)]])

(* Leaky ReLU *)

forward_lrelu(m) ==
  LET activated == m IN
  Ret([activated EXCEPT !.data =
        [i \in 1..(activated.rows * activated.cols) |->
           LET x == activated.data[i]
           IN IF Gt(x, Zero) THEN x ELSE Mul(Slope, x)]])

\* backward_lrelu taking the slope at an activated value of exactly 0 too
backward_lrelu_boundary(o, prev_grad) ==
  IF ~assert_same_size(prev_grad, o) THEN Fatal("assert_same_size")
  ELSE LET g == prev_grad IN
       Ret([g EXCEPT !.data =
             [i \in 1..(g.rows * g.cols) |->
                LET next == g.data[i]
                    f == o.data[i]
                    fdot == IF Gt(f, Zero) THEN One ELSE Slope
                IN Mul(next, fdot)]])

backward_lrelu(o, prev_grad) ==
  IF ~assert_same_size(prev_grad, o) THEN Fatal("assert_same_size")
  ELSE LET g == prev_grad IN
       Ret([g EXCEPT !.data =
             [i \in 1..(g.rows * g.cols) |->
                LET next == g.data[i]
                    f == o.data[i]
                    fdot == IF Lt(f, Zero) THEN Slope ELSE One
                IN Mul(next, fdot)]])

(* Softmax *)

RECURSIVE softmax_sum(_, _, _)
\* sum after the first loop has added exp(m[i][0]) .. exp(m[i][j])
softmax_sum(m, i, j) ==
  IF j < 0 THEN Zero ELSE Add(softmax_sum(m, i, j - 1), Exp(At(m, i, j)))

RECURSIVE softmax_sum_carried(_, _)
softmax_sum_carried(m, k) ==
  IF k < 1 THEN Zero ELSE Add(softmax_sum_carried(m, k - 1), Exp(m.data[k]))

\* forward_softmax with sum declared outside the row loop: never reset
forward_softmax_carry(m) ==
  LET activated == m IN
  Ret([activated EXCEPT !.data =
        [k \in 1..(activated.rows * activated.cols) |->
           LET i == (k - 1) \div activated.cols
               sum == softmax_sum_carried(activated, (i + 1) * activated.cols)
               x == Exp(activated.data[k])
           IN IF sum = Zero THEN Zero ELSE Div(x, sum)]])

forward_softmax(m) ==
  LET activated == m IN
  Ret([activated EXCEPT !.data =
        [k \in 1..(activated.rows * activated.cols) |->
           LET i == (k - 1) \div activated.cols
               sum == softmax_sum(activated, i, activated.cols - 1)
               x == Exp(activated.data[k])
           IN IF sum = Zero THEN Zero ELSE Div(x, sum)]])

\* softmax_jacobian without the i == j test: every row is filled with out_row
softmax_jacobian_nodiag(out_row) ==
  IF out_row.rows # 1 THEN NoMatrix
  ELSE LET jacobian == [rows |-> out_row.cols, cols |-> out_row.cols,
                        data |-> [k \in 1..(out_row.cols * out_row.cols) |->
                                    At(out_row, 0, (k - 1) % out_row.cols)]]
       IN MatSub(jacobian, MatMul(transpose(out_row), out_row))

softmax_jacobian(out_row) ==
  IF out_row.rows # 1 THEN NoMatrix
  ELSE LET zeros == MatrixZero(out_row.cols, out_row.cols)
           jacobian == [zeros EXCEPT !.data =
                         [k \in 1..(out_row.cols * out_row.cols) |->
                            LET i == (k - 1) \div out_row.cols
                                j == (k - 1) % out_row.cols
                            IN IF i = j THEN At(out_row, 0, j) ELSE zeros.data[k]]]
       IN MatSub(jacobian, MatMul(transpose(out_row), out_row))

\* backward_softmax returning the last row's product instead of grad
backward_softmax_product(o, prev_grad) ==
  IF ~assert_same_size(prev_grad, o) THEN Fatal("assert_same_size")
  ELSE Ret(MatMul(get_row(prev_grad, o.rows - 1),
                  softmax_jacobian(get_row(o, o.rows - 1))))

\* backward_softmax building every row's Jacobian from row 0 of out
backward_softmax_row0(o, prev_grad) ==
  IF ~assert_same_size(prev_grad, o) THEN Fatal("assert_same_size")
  ELSE LET g == prev_grad IN
       Ret([g EXCEPT !.data =
             [k \in 1..(o.rows * o.cols) |->
                LET i == (k - 1) \div o.cols
                    j == (k - 1) % o.cols
                    jacobian == softmax_jacobian(get_row(o, 0))
                    row_grad == get_row(prev_grad, i)
                    product == MatMul(row_grad, jacobian)
                IN At(product, 0, j)]])

backward_softmax(o, prev_grad) ==
  IF ~assert_same_size(prev_grad, o) THEN Fatal("assert_same_size")
  ELSE LET g == prev_grad IN
       Ret([g EXCEPT !.data =
             [k \in 1..(o.rows * o.cols) |->
                LET i == (k - 1) \div o.cols
                    j == (k - 1) % o.cols
                    jacobian == softmax_jacobian(get_row(o, i))
                    row_grad == get_row(prev_grad, i)
                    product == MatMul(row_grad, jacobian)
                IN At(product, 0, j)]])

(* Dispatch *)

\* forward_activate_matrix falling back to the identity for an unknown kind
forward_activate_matrix_default(m, act) ==
  IF act = LOGISTIC THEN forward_logistic(m)
  ELSE IF act = TANH THEN forward_tanh(m)
  ELSE IF act = RELU THEN forward_relu(m)
  ELSE IF act = LRELU THEN forward_lrelu(m)
  ELSE IF act = SOFTMAX THEN forward_softmax(m)
  ELSE forward_linear(m)

forward_activate_matrix(m, act) ==
  IF act = LINEAR THEN forward_linear(m)
  ELSE IF act = LOGISTIC THEN forward_logistic(m)
  ELSE IF act = TANH THEN forward_tanh(m)
  ELSE IF act = RELU THEN forward_relu(m)
  ELSE IF act = LRELU THEN forward_lrelu(m)
  ELSE IF act = SOFTMAX THEN forward_softmax(m)
  ELSE Fatal("assert_false")

backward_activate_matrix(o, g, act) ==
  IF act = LINEAR THEN backward_linear(o, g)
  ELSE IF act = LOGISTIC THEN backward_logistic(o, g)
  ELSE IF act = TANH THEN backward_tanh(o, g)
  ELSE IF act = RELU THEN backward_relu(o, g)
  ELSE IF act = LRELU THEN backward_lrelu(o, g)
  ELSE IF act = SOFTMAX THEN backward_softmax(o, g)
  ELSE Fatal("assert_false")

---------------------------------------------------------------------------
(* The caller: a layer activates its pre-activation matrix, keeps the      *)
(* activated output, and later hands it back with the incoming gradient.   *)

\* entries of a pre-activation matrix: below the range of exp, zero, inside
\* the range, above the range
Vals == {Num(-2), Num(0), Num(1), Num(2)}

\* entries of an activated output handed to the backward pass directly
OutVals == {Num(-1), Num(0), Num(2)}

\* entries of the incoming gradient
GradVals == {Num(1), Num(-2)}

Shapes == {s \in (1..MaxRows) \X (1..MaxCols) : s[1] * s[2] <= MaxElems}

MatricesOver(V) ==
  UNION {{[rows |-> s[1], cols |-> s[2], data |-> d] : d \in [1..(s[1] * s[2]) -> V]}
         : s \in Shapes}

Init ==
  /\ a \in Activations \cup {INVALID}
  /\ grad \in MatricesOver(GradVals)
  /\ \/ pc = "start" /\ matrix \in MatricesOver(Vals) /\ out = NoMatrix
     \/ pc = "activated" /\ matrix = NoMatrix /\ out \in MatricesOver(OutVals)
  /\ result = NoMatrix
  /\ err = "none"
  /\ jacs = <<>>

\* forward_activate_matrix(matrix, a); the caller keeps the result as out
ForwardActivate ==
  /\ pc = "start"
  /\ LET r == forward_activate_matrix(matrix, a) IN
       /\ out' = r.value
       /\ err' = r.err
       /\ pc' = IF r.err = "none" THEN "activated" ELSE "aborted"
  /\ UNCHANGED <<a, matrix, grad, result, jacs>>

\* the backward call writing its result through the incoming gradient
BackwardActivate_inplace ==
  /\ pc = "activated"
  /\ LET r == backward_activate_matrix(out, grad, a) IN
       /\ result' = r.value
       /\ grad' = IF r.err = "none" THEN r.value ELSE grad
       /\ err' = r.err
       /\ pc' = IF r.err = "none" THEN "done" ELSE "aborted"
       /\ jacs' = IF a = SOFTMAX /\ r.err = "none"
                  THEN [i \in 1..out.rows |-> softmax_jacobian(get_row(out, i - 1))]
                  ELSE <<>>
  /\ UNCHANGED <<a, matrix, out>>

\* backward_activate_matrix(out, grad, a); jacs are the Jacobians it built
BackwardActivate ==
  /\ pc = "activated"
  /\ LET r == backward_activate_matrix(out, grad, a) IN
       /\ result' = r.value
       /\ err' = r.err
       /\ pc' = IF r.err = "none" THEN "done" ELSE "aborted"
       /\ jacs' = IF a = SOFTMAX /\ r.err = "none"
                  THEN [i \in 1..out.rows |-> softmax_jacobian(get_row(out, i - 1))]
                  ELSE <<>>
  /\ UNCHANGED <<a, matrix, out, grad>>

Next == ForwardActivate \/ BackwardActivate

Spec == Init /\ [][Next]_vars

---------------------------------------------------------------------------
(* Properties *)

\* forward_activate_matrix(matrix, a) has returned out
ForwardDone == matrix # NoMatrix /\ pc # "start" /\ a \in Activations

\* backward_activate_matrix(out, grad, a) has been called and has ended
BackwardCalled == pc = "done" \/ (pc = "aborted" /\ out # NoMatrix)

SameShape(x, y) == x.rows = y.rows /\ x.cols = y.cols

WellFormed(m) == Len(m.data) = m.rows * m.cols

RowMatrix(s) == [rows |-> 1, cols |-> Len(s), data |-> s]

RECURSIVE SeqSum(_)
SeqSum(s) == IF s = <<>> THEN Zero ELSE Add(SeqSum(SubSeq(s, 1, Len(s) - 1)), s[Len(s)])

RowOf(m, i) == [k \in 1..m.cols |-> At(m, i, k - 1)]

ExpRow(m, i) == [k \in 1..m.cols |-> Exp(At(m, i, k - 1))]

Elementwise == {LINEAR, LOGISTIC, TANH, RELU, LRELU}

\* f' of each elementwise kind, from the activated value f
Derivative(k, f) ==
  CASE k = LINEAR -> One
    [] k = LOGISTIC -> Mul(f, Sub(One, f))
    [] k = TANH -> Sub(One, Mul(f, f))
    [] k = RELU -> IF Lt(f, Zero) THEN Zero ELSE One
    [] k = LRELU -> IF Lt(f, Zero) THEN Slope ELSE One

\* each kind's own implementation
ImplForward(k, m) ==
  CASE k = LINEAR -> forward_linear(m)
    [] k = LOGISTIC -> forward_logistic(m)
    [] k = TANH -> forward_tanh(m)
    [] k = RELU -> forward_relu(m)
    [] k = LRELU -> forward_lrelu(m)
    [] k = SOFTMAX -> forward_softmax(m)

ImplBackward(k, o, g) ==
  CASE k = LINEAR -> backward_linear(o, g)
    [] k = LOGISTIC -> backward_logistic(o, g)
    [] k = TANH -> backward_tanh(o, g)
    [] k = RELU -> backward_relu(o, g)
    [] k = LRELU -> backward_lrelu(o, g)
    [] k = SOFTMAX -> backward_softmax(o, g)

ReluIn == RowMatrix(<<Num(-2), Num(0), Num(2)>>)
ReluOut == RowMatrix(<<Num(0), Num(0), Num(2)>>)
Ones3 == RowMatrix(<<Num(1), Num(1), Num(1)>>)

\* C1 as stated: ReLU forward of [-2, 0, 2] is [0, 0, 2], and ReLU backward of
\* that output with prev_grad [1, 1, 1] is [0, 1, 1].
C1_Original ==
  /\ (ForwardDone /\ a = RELU /\ matrix = ReluIn) => out = ReluOut
  /\ (pc = "done" /\ a = RELU /\ out = ReluOut /\ grad = Ones3)
       => result = RowMatrix(<<Num(0), Num(1), Num(1)>>)

\* C1 amended: ReLU forward of [-2, 0, 2] is [0, 0, 2], and ReLU backward of
\* that output with prev_grad [1, 1, 1] is [1, 1, 1]: no activated value is
\* negative, so every gradient element passes.
C1_Amended ==
  /\ (ForwardDone /\ a = RELU /\ matrix = ReluIn) => out = ReluOut
  /\ (pc = "done" /\ a = RELU /\ out = ReluOut /\ grad = Ones3) => result = Ones3

C1_Witness ==
  pc = "done" /\ a = RELU /\ matrix = ReluIn /\ out = ReluOut /\ grad = Ones3

\* C2: for each of the six kinds, a backward call whose out and grad differ in
\* (rows, cols) ends in the size assertion and returns no matrix.
C2_ShapeMismatchFatal ==
  (BackwardCalled /\ a \in Activations /\ (out.rows # grad.rows \/ out.cols # grad.cols))
    => (pc = "aborted" /\ err = "assert_same_size" /\ result = NoMatrix)

C2_Witness ==
  /\ pc = "aborted" /\ a = LINEAR /\ err = "assert_same_size"
  /\ out.rows * out.cols = grad.rows * grad.cols
  /\ out.rows # grad.rows

\* C3: the forward result has the shape of its input, and the backward result
\* of same-shaped out and grad has that shape.
C3_ShapePreserved ==
  /\ ForwardDone => (SameShape(out, matrix) /\ WellFormed(out))
  /\ pc = "done" => (SameShape(result, out) /\ SameShape(result, grad) /\ WellFormed(result))

C3_Witness ==
  pc = "done" /\ a = SOFTMAX /\ matrix # NoMatrix /\ result.rows = 2 /\ result.cols = 2

\* C4: the Jacobian built from a 1xC row r is CxC with
\* J[i][j] = r[j]*(delta_ij - r[i]); it is symmetric and its diagonal is r[i]*(1 - r[i]).
C4_Jacobian ==
  (pc = "done" /\ a = SOFTMAX) =>
    /\ Len(jacs) = out.rows
    /\ \A n \in 1..Len(jacs) :
         LET J == jacs[n]
             r == RowOf(out, n - 1)
             C == out.cols
         IN /\ J.rows = C /\ J.cols = C /\ WellFormed(J)
            /\ \A i, j \in 0..(C - 1) :
                 /\ At(J, i, j) = Mul(r[j + 1], Sub(IF i = j THEN One ELSE Zero, r[i + 1]))
                 /\ At(J, i, j) = At(J, j, i)
            /\ \A i \in 0..(C - 1) : At(J, i, i) = Mul(r[i + 1], Sub(One, r[i + 1]))

C4_Witness ==
  /\ pc = "done" /\ a = SOFTMAX /\ matrix # NoMatrix /\ out.cols = 2
  /\ At(jacs[1], 0, 1) # Zero /\ IsFinite(At(jacs[1], 0, 1))
  /\ At(out, 0, 0) # At(out, 0, 1)

\* C5: row i of backward_softmax's result is prev_grad's row i times the
\* Jacobian of out's row i, and depends on no other row.
C5_SoftmaxBackward ==
  (pc = "done" /\ a = SOFTMAX) =>
    \A i \in 0..(out.rows - 1) :
      /\ \A j \in 0..(out.cols - 1) :
           At(result, i, j) =
             SeqSum([k \in 1..out.cols |-> Mul(At(grad, i, k - 1), At(jacs[i + 1], k - 1, j))])
      /\ RowOf(result, i) = backward_softmax(get_row(out, i), get_row(grad, i)).value.data

C5_Witness ==
  /\ pc = "done" /\ a = SOFTMAX /\ matrix # NoMatrix
  /\ out.rows = 2 /\ out.cols = 2
  /\ RowOf(out, 0) # RowOf(out, 1)
  /\ RowOf(grad, 0) = RowOf(grad, 1)
  /\ RowOf(result, 0) # RowOf(result, 1)
  /\ At(result, 1, 0) # Zero /\ IsFinite(At(result, 1, 0))

\* C6 as stated: every row of the softmax of a matrix of finite values sums to
\* 1, or is all zero when its exponentials sum to exactly zero, and is computed
\* from that row alone.
C6_Original ==
  (ForwardDone /\ a = SOFTMAX) =>
    \A i \in 0..(matrix.rows - 1) :
      /\ IF SeqSum(ExpRow(matrix, i)) = Zero
         THEN \A j \in 0..(matrix.cols - 1) : At(out, i, j) = Zero
         ELSE SeqSum(RowOf(out, i)) = One
      /\ RowOf(out, i) = forward_softmax(get_row(matrix, i)).value.data

\* C6 amended: the same, for every row whose exponentials and their sum are
\* finite (no exp overflows).
C6_Amended ==
  (ForwardDone /\ a = SOFTMAX) =>
    \A i \in 0..(matrix.rows - 1) :
      /\ IsFinite(SeqSum(ExpRow(matrix, i))) =>
           IF SeqSum(ExpRow(matrix, i)) = Zero
           THEN \A j \in 0..(matrix.cols - 1) : At(out, i, j) = Zero
           ELSE SeqSum(RowOf(out, i)) = One
      /\ RowOf(out, i) = forward_softmax(get_row(matrix, i)).value.data

C6_Witness ==
  /\ ForwardDone /\ a = SOFTMAX /\ matrix.rows = 2 /\ matrix.cols = 2
  /\ RowOf(matrix, 0) = <<Num(0), Num(1)>>
  /\ RowOf(out, 0) = <<(<<1, 3>>), (<<2, 3>>)>>
  /\ RowOf(matrix, 1) = <<Num(-2), Num(-2)>>
  /\ RowOf(out, 1) = <<Zero, Zero>>

\* C7: each elementwise backward result is prev_grad * f'(out) element by
\* element, f' taken from the activated value; an activated value of exactly 0
\* has derivative 1 for ReLU and LeakyReLU.
C7_ElementwiseBackward ==
  (pc = "done" /\ a \in Elementwise) =>
    /\ SameShape(result, grad)
    /\ \A k \in 1..(out.rows * out.cols) :
         result.data[k] = Mul(grad.data[k], Derivative(a, out.data[k]))

C7_Witness ==
  /\ pc = "done" /\ a = LRELU
  /\ \E k \in 1..Len(out.data) : out.data[k] = Zero /\ result.data[k] = grad.data[k]
  /\ \E k \in 1..Len(out.data) :
       Lt(out.data[k], Zero) /\ result.data[k] = Mul(grad.data[k], Slope)

\* C8: a forward call leaves its matrix argument unchanged, and a backward
\* call leaves out and grad unchanged.
C8_ArgumentsUnchanged ==
  [][/\ (pc = "start" /\ pc' # "start") => (matrix' = matrix /\ grad' = grad)
     /\ (pc = "activated" /\ pc' # "activated")
          => (out' = out /\ grad' = grad /\ matrix' = matrix)]_vars

C8_Witness ==
  /\ pc = "done" /\ matrix # NoMatrix
  /\ out # matrix /\ result # grad /\ result # out

\* C9: both dispatchers give each of the six kinds its own implementation, and
\* any other kind ends in the failed assertion with no matrix returned.
C9_Dispatch ==
  /\ ForwardDone => (out = ImplForward(a, matrix).value /\ out # NoMatrix)
  /\ (BackwardCalled /\ a \in Activations)
       => (result = ImplBackward(a, out, grad).value /\ err = ImplBackward(a, out, grad).err)
  /\ (a \notin Activations /\ pc \notin {"start", "activated"})
       => /\ pc = "aborted" /\ err = "assert_false" /\ result = NoMatrix
          /\ matrix # NoMatrix => out = NoMatrix

C9_Witness ==
  a = INVALID /\ pc = "aborted" /\ err = "assert_false" /\ matrix # NoMatrix /\ out = NoMatrix

\* C10: the ReLU backward pass fed the ReLU forward output returns the incoming
\* gradient unchanged in every element, also where the input was negative.
C10_ReluNeverBlocks ==
  (pc = "done" /\ a = RELU /\ matrix # NoMatrix) => result = grad

C10_Witness ==
  /\ pc = "done" /\ a = RELU /\ matrix # NoMatrix /\ result = grad
  /\ \E k \in 1..Len(matrix.data) : Lt(matrix.data[k], Zero)

====
